---------------------------- MODULE Spec2Model ----------------------------
(***************************************************************************)
(* A model of the UK legislation fetcher (arch/fetchers/legislation_uk.py) *)
(* of cosilico-atlas: the file cache, the rate limiter, the single-section *)
(* and act-metadata fetches as asyncio coroutines, and the act-wide        *)
(* enumeration fetch_act_sections; of the jurisdiction registry            *)
(* (arch/sources/registry.py); and of the IRS drop listing parser as its   *)
(* tests describe it.                                                      *)
(*                                                                         *)
(* Strings are sequences of one-character (or atomic) string tokens, so    *)
(* that str(), path joining and file writes are computed, not assumed.     *)
(* Time is counted in ticks; only time.time() - self._last_request_time is *)
(* ever read by the code, and only compared with rate_limit_delay, so the  *)
(* model keeps that difference, saturated at rate_limit_delay.             *)
(***************************************************************************)
EXTENDS Integers, Sequences, FiniteSets, TLC

\* ------------------------------------------------------------- bounds
\* Number of coroutines that call the fetcher concurrently.
NumTasks == 2
\* Calls the free-running coroutines make in total.
MaxCalls == 3
\* Highest section number the source serves (above it every request is 404
\* or an error).
MaxSection == 2
\* Content versions the source may serve for one section.
MaxVersion == 1
\* Largest section_count the act metadata may carry.
MaxCount == 3
\* Largest year and number of the citations whose cache paths are compared.
MaxNum == 11
\* Most links in a drop listing.
MaxLinks == 2

\* -------------------------------------------------- program constants
\* rate_limit_delay (0.2 s) in ticks of 0.1 s.
RateLimitDelay == 2
\* "section_count = act.section_count or 1000".
DefaultMax == 1000
\* SourceConfig.max_retries default.
MaxRetries == 3
\* The status fetch_act_sections skips on, and a status it does not.
StatusNotFound == 404
StatusUnavailable == 503

Tasks == 1..NumTasks

Min(a, b) == IF a < b THEN a ELSE b
Max(a, b) == IF a > b THEN a ELSE b

\* ---------------------------------------------------------- citations
\* UKCitation(type, year, number, section).  A falsy section (None or "")
\* is the empty sequence: the code only ever tests "if citation.section".
NoSection == <<>>

Digits == <<"0", "1", "2", "3", "4", "5", "6", "7", "8", "9">>

\* str(n) for a natural number: its decimal digits.
RECURSIVE Str(_)
Str(n) == IF n < 10 THEN <<Digits[n + 1]>>
          ELSE Str(n \div 10) \o <<Digits[(n % 10) + 1]>>

UKCitation(type, year, number, section) ==
    [type |-> type, year |-> year, number |-> number, section |-> section]

\* The act every run and every free call is about ("ukpga/2003/1").
ActCit == UKCitation("ukpga", 2003, 1, NoSection)

\* UKCitation(type=..., year=..., number=..., section=str(i))
SectionCit(c, i) == UKCitation(c.type, c.year, c.number, Str(i))

\* self.data_dir
DataDir == <<"~/.arch/uk">>

\* _cache_path with the separator left out of the year/number join.
CachePathNoSep(c) ==
    DataDir \o <<"/", c.type, "/">> \o Str(c.year) \o Str(c.number) \o <<"/">>
        \o (IF c.section # NoSection
            THEN <<"section-">> \o c.section \o <<".xml">>
            ELSE <<"act.xml">>)

\* _cache_path without the section test: every citation of an act gets
\* the act's file.
CachePathActOnly(c) ==
    DataDir \o <<"/", c.type, "/">> \o Str(c.year) \o <<"/">> \o Str(c.number)
        \o <<"/", "act.xml">>

\* _cache_path: data_dir / type / str(year) / str(number) /
\* ("section-{section}.xml" if citation.section else "act.xml")
CachePath(c) ==
    DataDir \o <<"/", c.type, "/">> \o Str(c.year) \o <<"/">> \o Str(c.number)
        \o <<"/">>
        \o (IF c.section # NoSection
            THEN <<"section-">> \o c.section \o <<".xml">>
            ELSE <<"act.xml">>)

\* ----------------------------------------------------------- payloads
\* A payload (the XML text) is a sequence of chunks; the source always
\* sends exactly one chunk.  A chunk names the provision it is about and
\* carries its data: the section_count for an act, the content version for
\* a section.
\* An act payload without a section count; a section payload the parser
\* rejects.
NoCount == 0 - 1
Malformed == 0

Chunk(sec, data) == [sec |-> sec, data |-> data]

Counts == {NoCount} \cup (0..MaxCount)

\* The bodies the source may send with a 200 for citation c.
Bodies(c) ==
    IF c.section = NoSection
    THEN {<<Chunk(NoSection, n)>> : n \in Counts}
    ELSE IF c.section \in {Str(i) : i \in 1..MaxSection}
         THEN {<<Chunk(c.section, v)>> : v \in Malformed..MaxVersion}
         ELSE {}

NoVal == Chunk(NoSection, 0)
Result(kind, status, val) == [kind |-> kind, status |-> status, val |-> val]
NoResult == Result("none", 0, NoVal)

\* parse_section: the UKSection of a payload, or a parse error.
ParseSection(xml) ==
    IF Len(xml) = 1 /\ xml[1].sec # NoSection /\ xml[1].data # Malformed
    THEN Result("ok", 0, xml[1])
    ELSE Result("parse_error", 0, NoVal)

\* parse_act_metadata: the UKAct of a payload, or a parse error.
ParseAct(xml) ==
    IF Len(xml) = 1 /\ xml[1].sec = NoSection
    THEN Result("ok", 0, xml[1])
    ELSE Result("parse_error", 0, NoVal)

\* fetch_section ends in parse_section, fetch_act_metadata in
\* parse_act_metadata.
Parse(method, xml) ==
    IF method = "fetch_section" THEN ParseSection(xml) ELSE ParseAct(xml)

\* -------------------------------------------------------------- state
VARIABLES
    cache,      \* the files under data_dir: cache path -> text
    committed,  \* history: cache path -> the text last handed to write_text
    elapsed,    \* time.time() - self._last_request_time, saturated
    pc,         \* per coroutine: idle, sleeping, requesting, done, failed
    cur,        \* per coroutine: the frame of its current call
    sleep,      \* per coroutine: ticks left of asyncio.sleep
    xml,        \* per coroutine: the local xml_str
    result      \* per coroutine: what the call returned or raised

fetchVars == <<cache, committed, elapsed, pc, cur, sleep, xml, result>>

\* fetch_act_sections, run by coroutine Runner.
VARIABLES
    runpc,          \* idle, meta, loop, await, returned, raised
    max_sections,   \* the argument of the current run
    act,            \* the local `act`: the parsed metadata
    section_count,  \* the local section_count
    i,              \* the loop variable
    sections,       \* the local list `sections`; what a returned run returns
    error,          \* the exception a raised run ended with
    tally           \* history of the current run, for the properties

runVars == <<runpc, max_sections, act, section_count, i, sections, error, tally>>

\* History: the calls the free-running coroutines have made so far.
VARIABLES calls

\* Two citations and their cache paths.
VARIABLES citA, citB, pathA, pathB

pathVars == <<citA, citB, pathA, pathB>>

\* Re-runs of fetch_act_sections against a source that does not change.
VARIABLES
    source,     \* what the source answers, per act and section number
    prev        \* history: how the previous run ended, as its caller saw it

rerunVars == <<source, prev>>

\* The jurisdiction registry (arch/sources/registry.py).
VARIABLES
    source_configs,  \* the module-level _SOURCE_CONFIGS
    yaml,            \* the configurations in the YAML files of sources/
    regcall          \* the last registry call: its argument and what it returned

regVars == <<source_configs, yaml, regcall>>

\* The IRS drop listing parser.
VARIABLES
    html,       \* the listing handed to parse_irs_drop_listing: its links
    docs,       \* the documents it returned
    irs_year,   \* the year argument of the filtered calls
    irs_types,  \* their doc_types argument
    filtered,   \* what parse_irs_drop_listing(html, year, doc_types) returned
    listed      \* what IRSBulkFetcher.list_documents(year, doc_types) returned

irsVars == <<html, docs, irs_year, irs_types, filtered, listed>>

auxVars == <<rerunVars, regVars, irsVars>>

vars == <<fetchVars, runVars, pathVars, calls, auxVars>>

\* The frame of a call: its arguments and, as history, whether the entry
\* existed when it started (had), whether it was served from it (hit), the
\* requests it sent, and whether it wrote and replaced the entry.
Frame(method, c, cacheFlag, force, had, hit, nreq, wrote, over) ==
    [method |-> method, cit |-> c, cache |-> cacheFlag, force |-> force,
     had |-> had, hit |-> hit, nreq |-> nreq, wrote |-> wrote, over |-> over]
NoFrame == Frame("none", ActCit, FALSE, FALSE, FALSE, FALSE, 0, FALSE, FALSE)

\* cache_path.exists()
Exists(p) == p \in DOMAIN cache

\* The cache test with the existence check dropped (always refetch).
CacheHitNever(p, force) == FALSE

\* "if not force and cache_path.exists()"
CacheHit(p, force) == ~force /\ Exists(p)

\* write_text that leaves an existing file alone (exclusive creation).
WriteTextKeep(old, new) == IF old # <<>> THEN old ELSE new

\* write_text opening the file for append.
WriteTextAppend(old, new) == old \o new

\* cache_path.write_text(xml_str): the file's text afterwards, given the
\* text before (empty when the file did not exist).
WriteText(old, new) == new

FetchInit ==
    /\ cache = << >>
    /\ committed = << >>
    /\ elapsed = RateLimitDelay
    /\ pc = [t \in Tasks |-> "idle"]
    /\ cur = [t \in Tasks |-> NoFrame]
    /\ sleep = [t \in Tasks |-> 0]
    /\ xml = [t \in Tasks |-> <<>>]
    /\ result = [t \in Tasks |-> NoResult]

\* The synchronous start of fetch_section / fetch_act_metadata by coroutine
\* t, up to its first suspension: the cache test and, on a hit, the whole
\* call; on a miss, _fetch_xml up to the sleep of _rate_limit or, when no
\* sleep is due, up to the request being sent.
FetchCall(t, method, c, cacheFlag, force) ==
    LET p == CachePath(c) IN
    /\ UNCHANGED <<cache, committed>>
    /\ IF CacheHit(p, force)
       THEN /\ xml' = [xml EXCEPT ![t] = cache[p]]
            /\ result' = [result EXCEPT ![t] = Parse(method, cache[p])]
            /\ pc' = [pc EXCEPT ![t] =
                        IF Parse(method, cache[p]).kind = "ok"
                        THEN "done" ELSE "failed"]
            /\ cur' = [cur EXCEPT ![t] =
                        Frame(method, c, cacheFlag, force, TRUE, TRUE, 0, FALSE, FALSE)]
            /\ UNCHANGED <<elapsed, sleep>>
       ELSE /\ xml' = [xml EXCEPT ![t] = <<>>]
            /\ result' = [result EXCEPT ![t] = NoResult]
            /\ IF elapsed < RateLimitDelay
               THEN /\ pc' = [pc EXCEPT ![t] = "sleeping"]
                    /\ sleep' = [sleep EXCEPT ![t] = RateLimitDelay - elapsed]
                    /\ cur' = [cur EXCEPT ![t] =
                          Frame(method, c, cacheFlag, force, Exists(p), FALSE, 0, FALSE, FALSE)]
                    /\ UNCHANGED elapsed
               ELSE /\ pc' = [pc EXCEPT ![t] = "requesting"]
                    /\ elapsed' = 0
                    /\ cur' = [cur EXCEPT ![t] =
                          Frame(method, c, cacheFlag, force, Exists(p), FALSE, 1, FALSE, FALSE)]
                    /\ UNCHANGED sleep

\* _rate_limit without the wait: the request is sent at once.
WakeAtOnce(t) ==
    /\ pc[t] = "sleeping"
    /\ pc' = [pc EXCEPT ![t] = "requesting"]
    /\ sleep' = [sleep EXCEPT ![t] = 0]
    /\ elapsed' = 0
    /\ cur' = [cur EXCEPT ![t].nreq = @ + 1]
    /\ UNCHANGED <<cache, committed, xml, result>>

\* asyncio.sleep returns in _rate_limit: _last_request_time = time.time(),
\* then the request is sent.
Wake(t) ==
    /\ pc[t] = "sleeping"
    /\ sleep[t] = 0
    /\ pc' = [pc EXCEPT ![t] = "requesting"]
    /\ elapsed' = 0
    /\ cur' = [cur EXCEPT ![t].nreq = @ + 1]
    /\ UNCHANGED <<cache, committed, sleep, xml, result>>

\* The file system after cache_path.write_text(body) at path p.
Written(files, p, body) ==
    [q \in (DOMAIN files) \cup {p} |->
        IF q = p
        THEN WriteText(IF p \in DOMAIN files THEN files[p] ELSE <<>>, body)
        ELSE files[q]]

\* The 200 branch with the text parsed first and cached only if it parses.
RespondOKParseFirst(t, body) ==
    LET p == CachePath(cur[t].cit)
        good == Parse(cur[t].method, body).kind = "ok"
    IN
    /\ xml' = [xml EXCEPT ![t] = body]
    /\ IF cur[t].cache /\ good
       THEN /\ cache' = Written(cache, p, body)
            /\ committed' = [q \in (DOMAIN committed) \cup {p} |->
                                IF q = p THEN body ELSE committed[q]]
            /\ cur' = [cur EXCEPT ![t].wrote = TRUE,
                                  ![t].over = Exists(p) /\ cache[p] # body]
       ELSE UNCHANGED <<cache, committed, cur>>
    /\ result' = [result EXCEPT ![t] = Parse(cur[t].method, body)]
    /\ pc' = [pc EXCEPT ![t] = IF good THEN "done" ELSE "failed"]

\* client.get returns 200 with `body`: raise_for_status passes, the text is
\* written to the cache when asked and parsed.
RespondOK(t, body) ==
    LET p == CachePath(cur[t].cit) IN
    /\ xml' = [xml EXCEPT ![t] = body]
    /\ IF cur[t].cache
       THEN /\ cache' = Written(cache, p, body)
            /\ committed' = [q \in (DOMAIN committed) \cup {p} |->
                                IF q = p THEN body ELSE committed[q]]
            /\ cur' = [cur EXCEPT ![t].wrote = TRUE,
                                  ![t].over = Exists(p) /\ cache[p] # body]
       ELSE UNCHANGED <<cache, committed, cur>>
    /\ result' = [result EXCEPT ![t] = Parse(cur[t].method, body)]
    /\ pc' = [pc EXCEPT ![t] =
                IF Parse(cur[t].method, body).kind = "ok" THEN "done" ELSE "failed"]

\* The response text written to the cache before raise_for_status is
\* called: the (empty) body of the error response replaces the entry.
RespondStatusCached(t, status) ==
    /\ result' = [result EXCEPT ![t] = Result("http_status_error", status, NoVal)]
    /\ pc' = [pc EXCEPT ![t] = "failed"]
    /\ IF cur[t].cache
       THEN cache' = [q \in (DOMAIN cache) \cup {CachePath(cur[t].cit)} |->
                        IF q = CachePath(cur[t].cit) THEN <<>> ELSE cache[q]]
       ELSE UNCHANGED cache
    /\ UNCHANGED <<committed, cur, xml>>

\* The status error re-raised as a generic error that drops the response.
RespondStatusNoCode(t, status) ==
    /\ result' = [result EXCEPT ![t] = Result("http_status_error", 0, NoVal)]
    /\ pc' = [pc EXCEPT ![t] = "failed"]
    /\ UNCHANGED <<cache, committed, cur, xml>>

\* client.get returns a non-2xx status: raise_for_status raises
\* httpx.HTTPStatusError, which leaves the fetch.
RespondStatus(t, status) ==
    /\ result' = [result EXCEPT ![t] = Result("http_status_error", status, NoVal)]
    /\ pc' = [pc EXCEPT ![t] = "failed"]
    /\ UNCHANGED <<cache, committed, cur, xml>>

\* client.get raises a timeout or connection error (httpx.TransportError).
RespondTransport(t) ==
    /\ result' = [result EXCEPT ![t] = Result("transport_error", 0, NoVal)]
    /\ pc' = [pc EXCEPT ![t] = "failed"]
    /\ UNCHANGED <<cache, committed, cur, xml>>

\* The outcome of the request coroutine t has in flight.
Respond(t) ==
    /\ pc[t] = "requesting"
    /\ UNCHANGED <<elapsed, sleep>>
    /\ \/ \E body \in Bodies(cur[t].cit) : RespondOK(t, body)
       \/ \E status \in {StatusNotFound, StatusUnavailable} : RespondStatus(t, status)
       \/ RespondTransport(t)

\* One tick of the clock.
Tick ==
    /\ elapsed < RateLimitDelay \/ \E t \in Tasks : sleep[t] > 0
    /\ elapsed' = Min(elapsed + 1, RateLimitDelay)
    /\ sleep' = [t \in Tasks |-> Max(sleep[t] - 1, 0)]
    /\ UNCHANGED <<cache, committed, pc, cur, xml, result>>

\* The citations free-running callers ask for.
FreeCits == {ActCit, SectionCit(ActCit, 1)}

MethodFor(c) == IF c.section = NoSection THEN "fetch_act_metadata" ELSE "fetch_section"

\* A caller awaits fetcher.fetch_section(c, cache, force) or
\* fetcher.fetch_act_metadata(c, cache, force).
Call(t) ==
    /\ pc[t] \in {"idle", "done", "failed"}
    /\ calls < MaxCalls
    /\ calls' = calls + 1
    /\ \E c \in FreeCits, cacheFlag \in BOOLEAN, force \in BOOLEAN :
          FetchCall(t, MethodFor(c), c, cacheFlag, force)

\* ------------------------------------------------- fetch_act_sections
\* The coroutine that runs fetch_act_sections.
Runner == 1

NoMax == 0 - 1
\* The values of max_sections a caller passes (None, or a number).
MaxSectionsArgs == {NoMax} \cup (0..MaxCount)

NoError == [kind |-> "none", status |-> 0, from |-> "none", nreq |-> 0]
NoTally == [lastAttempt |-> 0, ascending |-> TRUE, hits |-> 0, firstSkip |-> 0]

\* "section_count = act.section_count or 1000", then
\* "if max_sections: section_count = min(section_count, max_sections)"
SectionCount(count, maxArg) ==
    LET sc == IF count = NoCount \/ count = 0 THEN DefaultMax ELSE count
    IN  IF maxArg # NoMax /\ maxArg # 0 THEN Min(sc, maxArg) ELSE sc

\* The except clause with the 404 test dropped: every status error is
\* re-raised.
IsSkipNever(res) == FALSE

\* "except httpx.HTTPStatusError as e: if e.response.status_code == 404:
\* continue"
IsSkip(res) == res.kind = "http_status_error" /\ res.status = StatusNotFound

\* The list built by inserting at the front.
AppendSectionFront(secs, s) == <<s>> \o secs

\* sections.append(section)
AppendSection(secs, s) == Append(secs, s)

RunInit ==
    /\ runpc = "idle"
    /\ max_sections = NoMax
    /\ act = NoVal
    /\ section_count = 0
    /\ i = 0
    /\ sections = <<>>
    /\ error = NoError
    /\ tally = NoTally

\* The value of a digit string: the inverse of Str.
RECURSIVE Num(_)
Num(s) ==
    IF s = <<>> THEN 0
    ELSE 10 * Num(SubSeq(s, 1, Len(s) - 1))
         + (CHOOSE d \in 0..9 : Digits[d + 1] = s[Len(s)])

\* fetch_act_sections with the list created once and shared by all runs
\* (as a mutable default or an attribute would be).
RunStartKeepSections ==
    /\ runpc \in {"idle", "returned", "raised", "cancelled"}
    /\ \E m \in MaxSectionsArgs : max_sections' = m
    /\ runpc' = "meta"
    /\ act' = NoVal
    /\ section_count' = 0
    /\ i' = 0
    /\ sections' = sections
    /\ error' = NoError
    /\ tally' = NoTally
    /\ FetchCall(Runner, "fetch_act_metadata", ActCit, TRUE, FALSE)

\* fetch_act_sections(citation, max_sections) is called: it awaits
\* fetch_act_metadata(citation).
RunStart ==
    /\ runpc \in {"idle", "returned", "raised", "cancelled"}
    /\ \E m \in MaxSectionsArgs : max_sections' = m
    /\ runpc' = "meta"
    /\ act' = NoVal
    /\ section_count' = 0
    /\ i' = 0
    /\ sections' = <<>>
    /\ error' = NoError
    /\ tally' = NoTally
    /\ FetchCall(Runner, "fetch_act_metadata", ActCit, TRUE, FALSE)

\* fetch_act_metadata returned or raised: an exception leaves
\* fetch_act_sections; otherwise section_count is computed and the loop
\* starts.
RunMeta ==
    /\ runpc = "meta"
    /\ pc[Runner] \in {"done", "failed"}
    /\ pc' = [pc EXCEPT ![Runner] = "idle"]
    /\ IF pc[Runner] = "done"
       THEN /\ act' = result[Runner].val
            /\ section_count' = SectionCount(result[Runner].val.data, max_sections)
            /\ i' = 1
            /\ runpc' = "loop"
            /\ UNCHANGED error
       ELSE /\ runpc' = "raised"
            /\ error' = [kind |-> result[Runner].kind,
                         status |-> result[Runner].status,
                         from |-> "fetch_act_metadata",
                         nreq |-> cur[Runner].nreq]
            /\ UNCHANGED <<act, section_count, i>>
    /\ UNCHANGED <<cache, committed, elapsed, cur, sleep, xml, result>>
    /\ UNCHANGED <<max_sections, sections, tally>>

\* One pass of "for i in range(1, section_count + 1)": the citation is
\* built and fetch_section(section_citation) awaited.
RunIterCall ==
    /\ runpc = "loop"
    /\ i <= section_count
    /\ runpc' = "await"
    /\ tally' = [tally EXCEPT
                   !.lastAttempt = Num(SectionCit(ActCit, i).section),
                   !.ascending = @ /\ Num(SectionCit(ActCit, i).section)
                                        = tally.lastAttempt + 1]
    /\ FetchCall(Runner, "fetch_section", SectionCit(ActCit, i), TRUE, FALSE)
    /\ UNCHANGED <<max_sections, act, section_count, i, sections, error>>

\* fetch_section returned (the section is appended), raised a 404 status
\* error (continue) or raised anything else (re-raised or not caught: the
\* exception leaves fetch_act_sections and the list is lost).
RunIterResult ==
    /\ runpc = "await"
    /\ pc[Runner] \in {"done", "failed"}
    /\ pc' = [pc EXCEPT ![Runner] = "idle"]
    /\ IF pc[Runner] = "done"
       THEN /\ sections' = AppendSection(sections, result[Runner].val)
            /\ i' = i + 1
            /\ runpc' = "loop"
            /\ tally' = [tally EXCEPT !.hits = @ + (IF cur[Runner].hit THEN 1 ELSE 0)]
            /\ UNCHANGED error
       ELSE IF IsSkip(result[Runner])
       THEN /\ i' = i + 1
            /\ runpc' = "loop"
            /\ tally' = [tally EXCEPT !.firstSkip = IF @ = 0 THEN i ELSE @]
            /\ UNCHANGED <<sections, error>>
       ELSE /\ runpc' = "raised"
            /\ sections' = <<>>
            /\ error' = [kind |-> result[Runner].kind,
                         status |-> result[Runner].status,
                         from |-> "fetch_section",
                         nreq |-> cur[Runner].nreq]
            /\ UNCHANGED <<i, tally>>
    /\ UNCHANGED <<cache, committed, elapsed, cur, sleep, xml, result>>
    /\ UNCHANGED <<max_sections, act, section_count>>

\* The loop is over: "return iter(sections)".
RunReturn ==
    /\ runpc = "loop"
    /\ i > section_count
    /\ runpc' = "returned"
    /\ UNCHANGED fetchVars
    /\ UNCHANGED <<max_sections, act, section_count, i, sections, error, tally>>

\* ------------------------------------------------------- cache paths
\* The citations whose cache paths are compared.
PathCits ==
    {UKCitation(ty, y, n, s) :
        ty \in {"ukpga", "uksi"}, y \in {1, MaxNum}, n \in 1..MaxNum,
        s \in {NoSection} \cup {Str(k) : k \in 1..MaxSection}}

NoPath == <<>>

PathIdle ==
    /\ citA = ActCit
    /\ citB = ActCit
    /\ pathA = NoPath
    /\ pathB = NoPath

PathDraw ==
    /\ citA \in PathCits
    /\ citB \in PathCits
    /\ pathA = NoPath
    /\ pathB = NoPath

\* self._cache_path(citation) for both citations.
ComputePaths ==
    /\ pathA = NoPath
    /\ pathA' = CachePath(citA)
    /\ pathB' = CachePath(citB)
    /\ UNCHANGED <<citA, citB>>

\* ------------------------------------------------------------ re-runs
\* What the source answers to a request: a body with a 200, a status that
\* raise_for_status raises on, or no answer (timeout, connection error).
Answer(kind, status, body) == [kind |-> kind, status |-> status, body |-> body]

Failures ==
    {Answer("status", StatusNotFound, <<>>),
     Answer("status", StatusUnavailable, <<>>),
     Answer("transport", 0, <<>>)}

\* The answers of a source to the request for the act (key 0) or for
\* section k: the act carries a section_count of 1..MaxCount or is
\* unavailable; a section the source does not serve is a 404.
AnswersFor(k) ==
    IF k = 0
    THEN {Answer("ok", 0, <<Chunk(NoSection, n)>>) : n \in 1..MaxCount}
            \cup {Answer("status", StatusUnavailable, <<>>)}
    ELSE IF k <= MaxSection
    THEN {Answer("ok", 0, b) : b \in Bodies(SectionCit(ActCit, k))} \cup Failures
    ELSE {Answer("status", StatusNotFound, <<>>)}

Sources ==
    {f \in [0..MaxCount -> UNION {AnswersFor(k) : k \in 0..MaxCount}] :
        \A k \in 0..MaxCount : f[k] \in AnswersFor(k)}

\* The key of a citation in `source`.
SourceKey(c) == IF c.section = NoSection THEN 0 ELSE Num(c.section)

\* What the caller of fetch_act_sections gets: the list, or the exception.
CallerSees ==
    [kind |-> runpc, value |-> sections,
     exc |-> [kind |-> error.kind, status |-> error.status]]

NoPrev ==
    [kind |-> "idle", max |-> NoMax,
     sees |-> [kind |-> "idle", value |-> <<>>,
               exc |-> [kind |-> "none", status |-> 0]],
     cache |-> << >>, skipped |-> FALSE, stop |-> 0]

RerunIdle ==
    /\ source = << >>
    /\ prev = NoPrev

\* The run that ends when the next one starts, as history.
Remember ==
    prev' = [kind |-> runpc, max |-> max_sections, sees |-> CallerSees,
             cache |-> cache, skipped |-> tally.firstSkip > 0, stop |-> i]

\* The request coroutine t has in flight is answered as the source answers
\* that citation.
RespondFixed(t) ==
    LET a == source[SourceKey(cur[t].cit)] IN
    /\ pc[t] = "requesting"
    /\ UNCHANGED <<elapsed, sleep>>
    /\ CASE a.kind = "ok" -> RespondOK(t, a.body)
         [] a.kind = "status" -> RespondStatus(t, a.status)
         [] OTHER -> RespondTransport(t)

\* The task running fetch_act_sections is cancelled while it is suspended
\* in asyncio.sleep or client.get: asyncio.CancelledError is raised at the
\* await, no except clause catches it, and it leaves fetch_act_sections.
Cancel ==
    /\ runpc \in {"meta", "await"}
    /\ pc[Runner] \in {"sleeping", "requesting"}
    /\ runpc' = "cancelled"
    /\ pc' = [pc EXCEPT ![Runner] = "idle"]
    /\ sleep' = [sleep EXCEPT ![Runner] = 0]
    /\ result' = [result EXCEPT ![Runner] = Result("cancelled", 0, NoVal)]
    /\ sections' = <<>>
    /\ error' = [kind |-> "cancelled", status |-> 0,
                 from |-> IF runpc = "meta" THEN "fetch_act_metadata"
                                            ELSE "fetch_section",
                 nreq |-> cur[Runner].nreq]
    /\ UNCHANGED <<cache, committed, elapsed, cur, xml>>
    /\ UNCHANGED <<max_sections, act, section_count, i, tally>>

\* ----------------------------------------------------------- registry
\* Jurisdiction codes are strings of characters, so that str.lower() and
\* the comparison with "us-ny" are computed.
Us == <<"u", "s">>
UsOh == <<"u", "s", "-", "o", "h">>
UsCo == <<"u", "s", "-", "c", "o">>
UsNy == <<"u", "s", "-", "n", "y">>
UsXx == <<"u", "s", "-", "x", "x">>
UsNyUpper == <<"U", "S", "-", "N", "Y">>
UsCoUpper == <<"U", "S", "-", "C", "O">>

\* The jurisdiction arguments of the registry functions.
Codes == {Us, UsOh, UsCo, UsNy, UsXx, UsNyUpper, UsCoUpper}

Capitals == <<"C", "H", "N", "O", "S", "U", "X", "Y">>
Smalls == <<"c", "h", "n", "o", "s", "u", "x", "y">>

\* str.lower()
LowerChar(ch) ==
    IF \E k \in DOMAIN Capitals : Capitals[k] = ch
    THEN Smalls[CHOOSE k \in DOMAIN Capitals : Capitals[k] = ch]
    ELSE ch
Lower(str) == [k \in DOMAIN str |-> LowerChar(str[k])]

\* SourceConfig(jurisdiction=..., source_type=...); the other fields play
\* no part in the selection.
SourceConfig(jurisdiction, source_type) ==
    [jurisdiction |-> jurisdiction, source_type |-> source_type]

\* None, as a configuration and as an adapter.
NoConfig == SourceConfig(<<>>, "None")
Adapter(variant, config) == [variant |-> variant, config |-> config]
NoAdapter == Adapter("None", NoConfig)

\* The source types configurations are registered with; "rest" is none of
\* the types get_source_for_jurisdiction tests for.
SourceTypes == {"uslm", "api", "bulk", "html", "rest"}

\* _get_builtin_configs(): the federal configuration, one of the HTML
\* states and Colorado, whose source is bulk PDF.
BuiltinConfigs ==
    (Us :> SourceConfig(Us, "uslm"))
        @@ (UsOh :> SourceConfig(UsOh, "html"))
        @@ (UsCo :> SourceConfig(UsCo, "bulk"))

\* A YAML file that declares no source_type.
NoType == "absent"

\* The contents of sources/*.yaml: jurisdiction -> declared source_type.
YamlDirs ==
    {<< >>,
     (UsNy :> "api"),
     (UsNy :> "api") @@ (UsXx :> NoType)}

\* _load_yaml_configs(): source_type=data.get("source_type", "html")
LoadYamlConfigs(y) ==
    [k \in DOMAIN y |-> SourceConfig(k, IF y[k] = NoType THEN "html" ELSE y[k])]

\* dict.update
Update(a, b) ==
    [k \in (DOMAIN a) \cup (DOMAIN b) |-> IF k \in DOMAIN b THEN b[k] ELSE a[k]]

\* get_all_configs(): the value of _SOURCE_CONFIGS it leaves and returns.
GetAllConfigs(configs, y) ==
    IF DOMAIN configs = {}
    THEN Update(BuiltinConfigs, LoadYamlConfigs(y))
    ELSE configs

\* configs.get(jurisdiction.lower())
GetConfig(configs, jurisdiction) ==
    IF Lower(jurisdiction) \in DOMAIN configs
    THEN configs[Lower(jurisdiction)]
    ELSE NoConfig

\* The selection without the "if not config: return None" guard: an
\* unconfigured jurisdiction falls through to the last branch.
SelectAdapterUnguarded(jurisdiction, config) ==
    IF config.source_type = "uslm" THEN Adapter("USLMSource", config)
    ELSE IF config.source_type = "api"
    THEN IF jurisdiction = UsNy
         THEN Adapter("NYLegislationSource", config)
         ELSE Adapter("APISource", config)
    ELSE Adapter("HTMLSource", config)

\* get_source_for_jurisdiction after the lookup: None without a
\* configuration, else the adapter chosen by source_type (and, for "api",
\* by the jurisdiction argument as passed).
SelectAdapter(jurisdiction, config) ==
    IF config = NoConfig THEN NoAdapter
    ELSE IF config.source_type = "uslm" THEN Adapter("USLMSource", config)
    ELSE IF config.source_type = "api"
    THEN IF jurisdiction = UsNy
         THEN Adapter("NYLegislationSource", config)
         ELSE Adapter("APISource", config)
    ELSE Adapter("HTMLSource", config)

NoLookup == [arg |-> <<>>, config |-> NoConfig, adapter |-> NoAdapter]
RegCall(op, arg, config, adapter, earlier) ==
    [op |-> op, arg |-> arg, config |-> config, adapter |-> adapter,
     earlier |-> earlier]
NoRegCall == RegCall("none", <<>>, NoConfig, NoAdapter, NoLookup)

RegIdle ==
    /\ source_configs = << >>
    /\ yaml = << >>
    /\ regcall = NoRegCall

RegInit ==
    /\ source_configs = << >>
    /\ yaml \in YamlDirs
    /\ regcall = NoRegCall

\* get_all_configs(), called on its own.
RegGetAllConfigs ==
    /\ source_configs' = GetAllConfigs(source_configs, yaml)
    /\ regcall' = RegCall("get_all_configs", <<>>, NoConfig, NoAdapter,
                          regcall.earlier)
    /\ UNCHANGED yaml

\* get_config_for_jurisdiction(jurisdiction)
RegGetConfig(jurisdiction) ==
    LET configs == GetAllConfigs(source_configs, yaml) IN
    /\ source_configs' = configs
    /\ regcall' = RegCall("get_config_for_jurisdiction", jurisdiction,
                          GetConfig(configs, jurisdiction), NoAdapter,
                          regcall.earlier)
    /\ UNCHANGED yaml

\* get_source_for_jurisdiction(jurisdiction); `earlier` keeps the call of
\* it made before this one.
RegGetSource(jurisdiction) ==
    LET configs == GetAllConfigs(source_configs, yaml)
        config == GetConfig(configs, jurisdiction)
    IN
    /\ source_configs' = configs
    /\ regcall' = RegCall("get_source_for_jurisdiction", jurisdiction, config,
                          SelectAdapter(jurisdiction, config),
                          IF regcall.op = "get_source_for_jurisdiction"
                          THEN [arg |-> regcall.arg, config |-> regcall.config,
                                adapter |-> regcall.adapter]
                          ELSE regcall.earlier)
    /\ UNCHANGED yaml

\* register_source(jurisdiction, config)
RegisterSource(jurisdiction, config) ==
    /\ source_configs' = Update(source_configs, Lower(jurisdiction) :> config)
    /\ regcall' = RegCall("register_source", jurisdiction, config, NoAdapter,
                          regcall.earlier)
    /\ UNCHANGED yaml

\* The configurations callers register.
RegisterArgs == {UsXx, UsNyUpper}

\* -------------------------------------------------- IRS drop listing
\* A listing is the sequence of the file names its links point to, each a
\* string of characters.
Pdf == <<".", "p", "d", "f">>

\* The guidance prefixes and the GuidanceType of each.
GuidanceTypes ==
    (<<"r", "p">> :> "REV_PROC") @@ (<<"r", "r">> :> "REV_RUL")
        @@ (<<"n">> :> "NOTICE") @@ (<<"a">> :> "ANNOUNCEMENT")

IsDigits(str) ==
    /\ Len(str) >= 1
    /\ \A k \in DOMAIN str : \E d \in DOMAIN Digits : Digits[d] = str[k]

\* str.split("-")
RECURSIVE SplitDash(_)
SplitDash(str) ==
    IF \A k \in DOMAIN str : str[k] # "-"
    THEN <<str>>
    ELSE LET at == CHOOSE k \in DOMAIN str :
                        str[k] = "-" /\ \A j \in 1..(k - 1) : str[j] # "-"
         IN  <<SubSeq(str, 1, at - 1)>> \o SplitDash(SubSeq(str, at + 1, Len(str)))

IRSDropDocument(doc_type, doc_number, year, pdf_filename) ==
    [doc_type |-> doc_type, doc_number |-> doc_number, year |-> year,
     pdf_filename |-> pdf_filename]

\* The year with the century taken as 19YY.
IrsYear19(yy) == 1900 + Num(yy)

\* The year of a two-digit YY.
IrsYear(yy) == 2000 + Num(yy)

\* The documents one link yields: one for "<prefix>-YY-N.pdf" with a
\* guidance prefix, none for any other name.
ParseIrsLink(name) ==
    LET stem == SubSeq(name, 1, Len(name) - Len(Pdf))
        parts == SplitDash(stem)
    IN  IF /\ Len(name) > Len(Pdf)
           /\ SubSeq(name, Len(name) - Len(Pdf) + 1, Len(name)) = Pdf
           /\ Len(parts) = 3
           /\ parts[1] \in DOMAIN GuidanceTypes
           /\ Len(parts[2]) = 2 /\ IsDigits(parts[2])
           /\ IsDigits(parts[3])
        THEN <<IRSDropDocument(GuidanceTypes[parts[1]],
                               <<"2", "0">> \o parts[2] \o <<"-">> \o parts[3],
                               IrsYear(parts[2]), name)>>
        ELSE <<>>

\* parse_irs_drop_listing(html), without the year and doc_types filters.
RECURSIVE ParseIrsDropListing(_)
ParseIrsDropListing(links) ==
    IF links = <<>> THEN <<>>
    ELSE ParseIrsLink(Head(links)) \o ParseIrsDropListing(Tail(links))

\* The file names of the listings: guidance documents of every type, and
\* publications, instructions and a name that lacks the number.
GuidanceGrid ==
    [prefix : DOMAIN GuidanceTypes,
     yy : {<<"0", "5">>, <<"2", "4">>},
     n : {<<"5">>, <<"4", "0">>}]

GuidanceName(g) == g.prefix \o <<"-">> \o g.yy \o <<"-">> \o g.n \o Pdf

OtherNames ==
    {<<"p", "1", "5", "4", "4">> \o Pdf,
     <<"i", "1", "0", "4", "0">> \o Pdf,
     <<"r", "p", "-", "2", "4">> \o Pdf}

LinkNames == {GuidanceName(g) : g \in GuidanceGrid} \cup OtherNames

Listings == UNION {[1..k -> LinkNames] : k \in 0..MaxLinks}

\* docs before the call.
NoDocs == <<IRSDropDocument("none", <<>>, 0, <<>>)>>

\* year=None and doc_types=None.
NoYear == 0
DocTypes(given, types) == [given |-> given, types |-> types]
NoTypes == DocTypes(FALSE, {})

\* The year and doc_types arguments of the filtered calls: a year with
\* documents in the listings and one without, one type and two types.
YearArgs == {NoYear, 2023, 2024}
DocTypesArgs ==
    {NoTypes, DocTypes(TRUE, {"REV_PROC"}), DocTypes(TRUE, {"REV_RUL", "NOTICE"})}

\* The filter that tests the year only.
KeepDocAnyType(doc, y, types) == y # NoYear => doc.year = y

\* A parsed document is kept when it passes the filters that are given.
KeepDoc(doc, y, types) ==
    /\ y # NoYear => doc.year = y
    /\ types.given => doc.doc_type \in types.types

\* parse_irs_drop_listing(html, year=..., doc_types=...): each link is
\* parsed and its document appended unless a filter rejects it.
RECURSIVE ParseIrsDropListingFiltered(_, _, _)
ParseIrsDropListingFiltered(links, y, types) ==
    IF links = <<>> THEN <<>>
    ELSE LET found == ParseIrsLink(Head(links)) IN
         (IF found # <<>> /\ KeepDoc(found[1], y, types) THEN found ELSE <<>>)
            \o ParseIrsDropListingFiltered(Tail(links), y, types)

\* IRSBulkFetcher.list_documents(year, doc_types): the listing that
\* _fetch_drop_listing() returns, parsed with the same filters.
ListDocumentsOf(listing, y, types) ==
    ParseIrsDropListingFiltered(listing, y, types)

IrsIdle ==
    /\ html = << >>
    /\ docs = << >>
    /\ irs_year = NoYear
    /\ irs_types = NoTypes
    /\ filtered = << >>
    /\ listed = << >>

IrsInit ==
    /\ html \in Listings
    /\ docs = NoDocs
    /\ irs_year \in YearArgs
    /\ irs_types \in DocTypesArgs
    /\ filtered = NoDocs
    /\ listed = NoDocs

\* docs = parse_irs_drop_listing(html)
ParseListing ==
    /\ docs = NoDocs
    /\ docs' = ParseIrsDropListing(html)
    /\ UNCHANGED <<html, irs_year, irs_types, filtered, listed>>

\* filtered = parse_irs_drop_listing(html, year=irs_year, doc_types=irs_types)
ParseListingFiltered ==
    /\ filtered = NoDocs
    /\ filtered' = ParseIrsDropListingFiltered(html, irs_year, irs_types)
    /\ UNCHANGED <<html, docs, irs_year, irs_types, listed>>

\* listed = fetcher.list_documents(year=irs_year, doc_types=irs_types), the
\* drop folder serving html.
ListDocuments ==
    /\ listed = NoDocs
    /\ listed' = ListDocumentsOf(html, irs_year, irs_types)
    /\ UNCHANGED <<html, docs, irs_year, irs_types, filtered>>

AuxIdle == RerunIdle /\ RegIdle /\ IrsIdle

\* ----------------------------------------------------- specifications
\* Concurrent fetch_section / fetch_act_metadata calls on one fetcher.
Init == FetchInit /\ RunInit /\ PathIdle /\ calls = 0 /\ AuxIdle

Next ==
    \/ Tick /\ UNCHANGED <<runVars, pathVars, calls, auxVars>>
    \/ \E t \in Tasks : Call(t) /\ UNCHANGED <<runVars, pathVars, auxVars>>
    \/ \E t \in Tasks : Wake(t) /\ UNCHANGED <<runVars, pathVars, calls, auxVars>>
    \/ \E t \in Tasks : Respond(t) /\ UNCHANGED <<runVars, pathVars, calls, auxVars>>

Spec == Init /\ [][Next]_vars

\* Consecutive fetch_act_sections runs of one coroutine on one cache.
NextRun ==
    \/ Tick /\ UNCHANGED <<runVars, pathVars, calls, auxVars>>
    \/ Wake(Runner) /\ UNCHANGED <<runVars, pathVars, calls, auxVars>>
    \/ Respond(Runner) /\ UNCHANGED <<runVars, pathVars, calls, auxVars>>
    \/ RunStart /\ UNCHANGED <<pathVars, calls, auxVars>>
    \/ RunMeta /\ UNCHANGED <<pathVars, calls, auxVars>>
    \/ RunIterCall /\ UNCHANGED <<pathVars, calls, auxVars>>
    \/ RunIterResult /\ UNCHANGED <<pathVars, calls, auxVars>>
    \/ RunReturn /\ UNCHANGED <<pathVars, calls, auxVars>>

SpecRun == Init /\ [][NextRun]_vars

\* Consecutive fetch_act_sections runs, some of them cancelled, against a
\* source whose answers do not change.
InitRerun ==
    /\ FetchInit /\ RunInit /\ PathIdle /\ calls = 0
    /\ source \in Sources
    /\ prev = NoPrev
    /\ RegIdle /\ IrsIdle

NextRerun ==
    \/ Tick /\ UNCHANGED <<runVars, pathVars, calls, auxVars>>
    \/ Wake(Runner) /\ UNCHANGED <<runVars, pathVars, calls, auxVars>>
    \/ RespondFixed(Runner) /\ UNCHANGED <<runVars, pathVars, calls, auxVars>>
    \/ RunStart /\ Remember /\ UNCHANGED <<source, pathVars, calls, regVars, irsVars>>
    \/ RunMeta /\ UNCHANGED <<pathVars, calls, auxVars>>
    \/ RunIterCall /\ UNCHANGED <<pathVars, calls, auxVars>>
    \/ RunIterResult /\ UNCHANGED <<pathVars, calls, auxVars>>
    \/ RunReturn /\ UNCHANGED <<pathVars, calls, auxVars>>
    \/ Cancel /\ UNCHANGED <<pathVars, calls, auxVars>>

SpecRerun == InitRerun /\ [][NextRerun]_vars

\* Calls of the registry functions in any order.
InitReg ==
    /\ FetchInit /\ RunInit /\ PathIdle /\ calls = 0
    /\ RerunIdle /\ IrsIdle
    /\ RegInit

NextReg ==
    \/ RegGetAllConfigs
            /\ UNCHANGED <<fetchVars, runVars, pathVars, calls, rerunVars, irsVars>>
    \/ \E j \in Codes : RegGetConfig(j)
            /\ UNCHANGED <<fetchVars, runVars, pathVars, calls, rerunVars, irsVars>>
    \/ \E j \in Codes : RegGetSource(j)
            /\ UNCHANGED <<fetchVars, runVars, pathVars, calls, rerunVars, irsVars>>
    \/ \E j \in RegisterArgs, st \in SourceTypes :
            RegisterSource(j, SourceConfig(Lower(j), st))
            /\ UNCHANGED <<fetchVars, runVars, pathVars, calls, rerunVars, irsVars>>

SpecReg == InitReg /\ [][NextReg]_vars

\* parse_irs_drop_listing applied to a listing.
InitIrs ==
    /\ FetchInit /\ RunInit /\ PathIdle /\ calls = 0
    /\ RerunIdle /\ RegIdle
    /\ IrsInit

NextIrs ==
    \/ ParseListing
        /\ UNCHANGED <<fetchVars, runVars, pathVars, calls, rerunVars, regVars>>
    \/ ParseListingFiltered
        /\ UNCHANGED <<fetchVars, runVars, pathVars, calls, rerunVars, regVars>>
    \/ ListDocuments
        /\ UNCHANGED <<fetchVars, runVars, pathVars, calls, rerunVars, regVars>>

SpecIrs == InitIrs /\ [][NextIrs]_vars

\* _cache_path applied to two citations.
InitPath == FetchInit /\ RunInit /\ PathDraw /\ calls = 0 /\ AuxIdle

NextPath == ComputePaths /\ UNCHANGED <<fetchVars, runVars, calls, auxVars>>

SpecPath == InitPath /\ [][NextPath]_vars

\* ------------------------------------------------------------- claims
\* The step in which coroutine t starts a call (Call, RunStart, RunIterCall).
Starts(t) ==
    /\ pc[t] \in {"idle", "done", "failed"}
    /\ <<pc[t], cur[t], xml[t], result[t]>> # <<pc'[t], cur'[t], xml'[t], result'[t]>>

\* C1: a fetch_section / fetch_act_metadata call made with force false
\* while the citation's cache entry exists sends no request, neither sleeps
\* in nor updates the rate limiter, and returns (or raises) what parsing
\* the cached text gives; hence a call that goes to the network was forced
\* or found no entry.
C1_CachedCallStaysLocal ==
    [][\A t \in Tasks :
          Starts(t) =>
            LET p == CachePath(cur'[t].cit) IN
            /\ (p \in DOMAIN cache /\ ~cur'[t].force) =>
                  /\ pc'[t] \in {"done", "failed"}
                  /\ cur'[t].nreq = 0
                  /\ elapsed' = elapsed
                  /\ sleep' = sleep
                  /\ xml'[t] = cache[p]
                  /\ result'[t] = Parse(cur'[t].method, cache[p])
            /\ pc'[t] \in {"sleeping", "requesting"} =>
                  (cur'[t].force \/ p \notin DOMAIN cache)]_vars

\* A non-forced call has been served from an existing entry.
C1_Witness ==
    \E t \in Tasks :
        /\ pc[t] = "done"
        /\ cur[t].hit /\ ~cur[t].force /\ cur[t].nreq = 0
        /\ CachePath(cur[t].cit) \in DOMAIN cache
        /\ result[t].kind = "ok"

\* C5: whenever a request is released to the source, at least
\* rate_limit_delay has passed since the previous request was released.
C5_RequestsSeparated ==
    [][\A t \in Tasks :
          (pc[t] # "requesting" /\ pc'[t] = "requesting") =>
              elapsed >= RateLimitDelay]_vars

\* C6: every cache entry is exactly the text of the write committed last to
\* its path, a whole payload as the source sent it: never empty, truncated
\* or a mixture.
C6_EntriesWhole ==
    /\ DOMAIN cache = DOMAIN committed
    /\ \A p \in DOMAIN cache :
          /\ cache[p] = committed[p]
          /\ Len(cache[p]) = 1
          /\ \E c \in FreeCits \cup {SectionCit(ActCit, k) : k \in 1..MaxSection} :
                p = CachePath(c) /\ cache[p] \in Bodies(c)

\* Two overlapping non-forced attempts at one citation have both written
\* the entry, with different payloads.
C6_Witness ==
    \E t \in Tasks, u \in Tasks :
        /\ t # u
        /\ cur[t].cit = cur[u].cit
        /\ cur[t].wrote /\ cur[u].wrote
        /\ ~cur[t].force /\ ~cur[u].force
        /\ pc[t] \in {"done", "failed"} /\ pc[u] \in {"done", "failed"}
        /\ xml[t] # xml[u]
        /\ cache[CachePath(cur[t].cit)] \in {xml[t], xml[u]}

\* C8: a forced fetch with cache=true that gets a 200 leaves exactly the
\* new payload in the entry, and a non-forced call served from the cache
\* returns what parsing the payload written last gives.
C8_ForceOverwrites ==
    [][\A t \in Tasks :
          /\ (/\ pc[t] = "requesting"
               /\ pc'[t] \in {"done", "failed"}
               /\ result'[t].kind \in {"ok", "parse_error"}
               /\ cur[t].force /\ cur[t].cache)
              => /\ cache'[CachePath(cur[t].cit)] = xml'[t]
                 /\ committed'[CachePath(cur[t].cit)] = xml'[t]
          /\ (Starts(t) /\ cur'[t].hit)
              => result'[t] =
                   Parse(cur'[t].method, committed[CachePath(cur'[t].cit)])]_vars

\* A forced fetch has replaced a different earlier payload, and a later
\* non-forced call got the new one.
C8_Witness ==
    \E t \in Tasks, u \in Tasks :
        /\ t # u
        /\ cur[t].force /\ cur[t].cache /\ cur[t].wrote /\ cur[t].over
        /\ cur[u].cit = cur[t].cit
        /\ cur[u].hit /\ ~cur[u].force /\ pc[u] = "done"
        /\ xml[u] = xml[t]
        /\ cache[CachePath(cur[t].cit)] = xml[t]

\* C7: two citations have the same cache path exactly when they are the
\* same citation.
C7_PathCollisionFree ==
    pathA # NoPath => ((pathA = pathB) <=> (citA = citB))

\* The paths of an act and of one of its sections have been computed.
C7_Witness ==
    /\ pathA # NoPath
    /\ citA.section = NoSection /\ citB.section # NoSection
    /\ citA.type = citB.type /\ citA.year = citB.year
    /\ citA.number = citB.number
    /\ pathA # pathB

Transient(e) ==
    \/ e.kind = "http_status_error" /\ e.status = StatusUnavailable
    \/ e.kind = "transport_error"

\* C2: when the fetch of a section citation in fetch_act_sections ends in a
\* 404, one request was sent for it, the run does not raise, nothing is
\* appended, and the loop moves on to the next section number.
C2_NotFoundSkipped ==
    [][(/\ runpc = "await"
        /\ runpc' # "await"
        /\ result[Runner].kind = "http_status_error"
        /\ result[Runner].status = StatusNotFound)
       => /\ cur[Runner].nreq = 1
          /\ runpc' = "loop"
          /\ i' = i + 1
          /\ sections' = sections
          /\ error' = NoError]_vars

\* A later section has been attempted after a skipped one.
C2_Witness ==
    /\ runpc \in {"loop", "await", "returned"}
    /\ tally.firstSkip > 0
    /\ tally.lastAttempt > tally.firstSkip
    /\ Len(sections) > 0
    /\ Num(sections[Len(sections)].sec) > tally.firstSkip

\* C3: a section fetch that failed with a transient error is only given up
\* after max_retries further requests.
C3_TransientRetried ==
    (runpc = "raised" /\ error.from = "fetch_section" /\ Transient(error))
        => error.nreq = 1 + MaxRetries

\* C4: a transient failure of one section fetch never ends the run with an
\* exception.
C4_FailureNotFatal ==
    ~(runpc = "raised" /\ error.from = "fetch_section" /\ Transient(error))

\* C9: the sections collected and returned are in ascending section
\* position.
C9_DocumentOrder ==
    \A j \in 1..Len(sections), k \in 1..Len(sections) :
        j < k => Num(sections[j].sec) < Num(sections[k].sec)

\* A run has returned two sections or more, with a cache hit, a network
\* fetch and a skipped citation among its citations.
C9_Witness ==
    /\ runpc = "returned"
    /\ Len(sections) >= 2
    /\ tally.hits >= 1
    /\ tally.hits < Len(sections)
    /\ tally.firstSkip > 0

\* The section count of C10: the act's section_count, 1000 when it carries
\* none, capped by max_sections when given.
ClaimedCount(count, maxArg) ==
    LET sc == IF count = NoCount THEN DefaultMax ELSE count
    IN  IF maxArg # NoMax THEN Min(sc, maxArg) ELSE sc

\* C10: a run that returns has attempted exactly the section numbers
\* 1..N, once each and in ascending order.
C10_FullEnumeration ==
    runpc = "returned" =>
        /\ tally.ascending
        /\ tally.lastAttempt = Max(ClaimedCount(act.data, max_sections), 0)

\* C11: the caller of a returned run can tell from what it got whether
\* citations were skipped: two runs that return the same list skipped
\* alike.
C11_OutcomeReported ==
    (runpc = "returned" /\ prev.kind = "returned" /\ CallerSees = prev.sees)
        => ((tally.firstSkip > 0) = prev.skipped)

Stopped(kind) == kind \in {"raised", "cancelled"}

\* C12: after a run that stopped mid-way the entries it had written are
\* still in the cache, the caller can tell from what it got where the run
\* stopped (two stopped runs that look the same to the caller stopped at the
\* same citation), and the next run sends requests only for citations
\* without an entry.
C12_StoppedRunResumable ==
    /\ Stopped(prev.kind) =>
          \A p \in DOMAIN prev.cache : p \in DOMAIN cache /\ cache[p] = prev.cache[p]
    /\ (Stopped(runpc) /\ Stopped(prev.kind) /\ CallerSees = prev.sees)
          => i = prev.stop
    /\ (Stopped(prev.kind) /\ pc[Runner] \in {"sleeping", "requesting"})
          => CachePath(cur[Runner].cit) \notin DOMAIN cache

\* C13: a run that returns after a run that returned, with the same
\* max_sections and against the same source, returns the same list, leaves
\* the cache as the first run left it, and returns no section twice.
C13_RerunIdempotent ==
    (runpc = "returned" /\ prev.kind = "returned" /\ prev.max = max_sections)
        => /\ sections = prev.sees.value
           /\ cache = prev.cache
           /\ \A j \in 1..Len(sections), k \in 1..Len(sections) :
                 j # k => sections[j].sec # sections[k].sec

\* A second run has returned two sections, both from the cache, after
\* skipping a citation again.
C13_Witness ==
    /\ runpc = "returned" /\ prev.kind = "returned"
    /\ prev.max = max_sections
    /\ Len(sections) >= 2
    /\ tally.hits = Len(sections)
    /\ tally.firstSkip > 0 /\ prev.skipped

\* C14: a section whose payload cannot be parsed never ends the run with
\* an exception; its sibling citations are still fetched and returned.
C14_ParseFailureNotFatal ==
    ~(runpc = "raised" /\ error.from = "fetch_section"
                       /\ error.kind = "parse_error")

Terminal(t) == pc[t] \in {"done", "failed"}

C16_AdapterBySourceType ==
    (/\ regcall.op = "get_source_for_jurisdiction"
     /\ regcall.config # NoConfig /\ regcall.earlier.config # NoConfig
     /\ regcall.config.source_type = regcall.earlier.config.source_type)
        => regcall.adapter.variant = regcall.earlier.adapter.variant

\* C17: the HTML adapter is returned only for a configuration whose
\* source_type is "html"; a bulk configuration, or one of a type outside
\* the known set, is not served by it.
C17_BulkNotHtml ==
    (regcall.op = "get_source_for_jurisdiction"
        /\ regcall.adapter.variant = "HTMLSource")
        => regcall.config.source_type = "html"

\* The registry as get_all_configs() gives it.
Registry == IF DOMAIN source_configs = {}
            THEN Update(BuiltinConfigs, LoadYamlConfigs(yaml))
            ELSE source_configs

\* C18: a lookup of a jurisdiction the registry has no configuration for
\* returns None, and for get_source_for_jurisdiction no adapter; the
\* registry gets no entry for it and keeps the entries it has.
C18_UnknownJurisdictionNone ==
    [][(/\ regcall'.op \in {"get_config_for_jurisdiction",
                            "get_source_for_jurisdiction"}
        /\ Lower(regcall'.arg) \notin DOMAIN Registry)
       => /\ regcall'.config = NoConfig
          /\ regcall'.adapter = NoAdapter
          /\ Lower(regcall'.arg) \notin DOMAIN source_configs'
          /\ regcall'.arg \notin DOMAIN source_configs'
          /\ Registry' = Registry]_vars

\* get_source_for_jurisdiction has returned None for a jurisdiction
\* without a configuration, the registry being loaded.
C18_Witness ==
    /\ regcall.op = "get_source_for_jurisdiction"
    /\ regcall.arg = UsXx
    /\ regcall.adapter = NoAdapter /\ regcall.config = NoConfig
    /\ UsCo \in DOMAIN source_configs
    /\ UsXx \notin DOMAIN source_configs

\* C19 as claimed: a fetch answered with a 404 does not end in the error
\* that other non-2xx statuses end in.
C19_NotFoundNoError ==
    \A t \in Tasks :
        (Terminal(t) /\ result[t].status = StatusNotFound)
            => result[t].kind # "http_status_error"

\* C19 as amended: a fetch answered with a non-2xx status, 404 included,
\* raises the HTTP status error carrying exactly that status, by which the
\* caller tells a 404 from the others, and writes no cache entry.
C19_StatusRaisedWithCode ==
    [][(/\ pc[Runner] = "requesting"
        /\ pc'[Runner] # "requesting"
        /\ runpc' # "cancelled"
        /\ source[SourceKey(cur[Runner].cit)].kind = "status")
       => /\ pc'[Runner] = "failed"
          /\ result'[Runner] =
                Result("http_status_error",
                       source[SourceKey(cur[Runner].cit)].status, NoVal)
          /\ cache' = cache /\ committed' = committed
          /\ ~cur'[Runner].wrote]_vars

\* fetch_section has raised the status error of a 404 and the citation has
\* no cache entry.
C19_Witness ==
    /\ pc[Runner] = "failed"
    /\ cur[Runner].method = "fetch_section"
    /\ result[Runner] = Result("http_status_error", StatusNotFound, NoVal)
    /\ source[SourceKey(cur[Runner].cit)].status = StatusNotFound
    /\ CachePath(cur[Runner].cit) \notin DOMAIN cache

\* The guidance document a file name stands for, if any.
IsGuidance(name) == \E g \in GuidanceGrid : GuidanceName(g) = name
GuidanceOf(name) == CHOOSE g \in GuidanceGrid : GuidanceName(g) = name

DigitValue(ch) == (CHOOSE d \in DOMAIN Digits : Digits[d] = ch) - 1

ClaimedDoc(name) ==
    LET g == GuidanceOf(name) IN
    IRSDropDocument(GuidanceTypes[g.prefix],
                    <<"2", "0">> \o g.yy \o <<"-">> \o g.n,
                    2000 + 10 * DigitValue(g.yy[1]) + DigitValue(g.yy[2]),
                    name)

RECURSIVE ClaimedDocs(_)
ClaimedDocs(links) ==
    IF links = <<>> THEN <<>>
    ELSE (IF IsGuidance(Head(links)) THEN <<ClaimedDoc(Head(links))>> ELSE <<>>)
            \o ClaimedDocs(Tail(links))

\* C20: the documents returned are, in listing order, one per link named
\* <prefix>-YY-N.pdf with prefix rp, rr, n or a, each with the type of its
\* prefix, the number "20YY-N", the year 2000+YY and the file name; other
\* links yield nothing.
C20_DropListingParsed ==
    docs # NoDocs => docs = ClaimedDocs(html)

\* The listing rp-24-40.pdf, p1544.pdf has been parsed to the one Revenue
\* Procedure 2024-40.
C20_Witness ==
    /\ docs # NoDocs
    /\ Len(html) = 2
    /\ html[2] = <<"p", "1", "5", "4", "4">> \o Pdf
    /\ Len(docs) = 1
    /\ docs[1].doc_type = "REV_PROC"
    /\ docs[1].doc_number = <<"2", "0", "2", "4", "-", "4", "0">>
    /\ docs[1].year = 2024
    /\ docs[1].pdf_filename = html[1]

\* The documents of a list that pass the filters given.
Matching(found, y, types) ==
    SelectSeq(found, LAMBDA d : /\ (y # NoYear => d.year = y)
                                /\ (types.given => d.doc_type \in types.types))

\* C21: the year and doc_types arguments are pure filters: what
\* parse_irs_drop_listing and list_documents return with them is exactly
\* the unfiltered parse of the same listing restricted, in order, to the
\* documents of the given year and of the given types.
C21_FiltersPure ==
    /\ filtered # NoDocs =>
          filtered = Matching(ParseIrsDropListing(html), irs_year, irs_types)
    /\ listed # NoDocs =>
          listed = Matching(ParseIrsDropListing(html), irs_year, irs_types)
    /\ (docs # NoDocs /\ filtered # NoDocs) =>
          filtered = Matching(docs, irs_year, irs_types)

\* A listing of a 2024 Revenue Procedure and a 2005 Notice has been parsed
\* whole and with year=2024, doc_types=[REV_PROC]: the unfiltered parse has
\* both, the filtered one and list_documents only the first.
C21_Witness ==
    /\ Len(docs) = 2 /\ docs # NoDocs
    /\ docs[2].doc_type = "NOTICE" /\ docs[2].year = 2005
    /\ irs_year = 2024
    /\ irs_types = DocTypes(TRUE, {"REV_PROC"})
    /\ filtered = <<docs[1]>>
    /\ listed = <<docs[1]>>

\* C22: the cache stores what was fetched, parsed or not.  A fetch with
\* cache=true that got a 200 leaves exactly the received text in the entry
\* whether or not it parses; entries are never removed; and while the entry
\* still holds the text of a call that failed in parsing, a non-forced call
\* for that citation is served that text without a request or a wait.
C22_CacheStoresUnparsed ==
    [][/\ DOMAIN cache \subseteq DOMAIN cache'
       /\ \A t \in Tasks :
            /\ (/\ pc[t] = "requesting"
                 /\ Terminal(t)'
                 /\ result'[t].kind \in {"ok", "parse_error"}
                 /\ cur[t].cache)
                => /\ CachePath(cur[t].cit) \in DOMAIN cache'
                   /\ cache'[CachePath(cur[t].cit)] = xml'[t]
                   /\ cur'[t].wrote
            /\ \A u \in Tasks :
                 (/\ Terminal(u) /\ result[u].kind = "parse_error"
                  /\ cur[u].wrote
                  /\ cache[CachePath(cur[u].cit)] = xml[u]
                  /\ Starts(t)
                  /\ cur'[t].cit = cur[u].cit /\ ~cur'[t].force)
                 => /\ cur'[t].hit /\ cur'[t].nreq = 0
                    /\ xml'[t] = xml[u]
                    /\ pc'[t] = "failed" /\ result'[t].kind = "parse_error"
                    /\ elapsed' = elapsed /\ sleep' = sleep
                    /\ cache' = cache]_vars

\* A fetched payload failed parsing and is in the cache, and a later
\* non-forced call for the citation was served it from there.
C22_Witness ==
    \E t \in Tasks, u \in Tasks :
        /\ t # u
        /\ pc[u] = "failed" /\ result[u].kind = "parse_error"
        /\ cur[u].nreq = 1 /\ cur[u].wrote
        /\ cur[t].cit = cur[u].cit
        /\ cur[t].hit /\ ~cur[t].force /\ cur[t].nreq = 0
        /\ xml[t] = xml[u]
        /\ result[t].kind = "parse_error"
        /\ cache[CachePath(cur[u].cit)] = xml[u]

\* The cache entry of citation c in a file system: absent, or its text.
Entry(files, c) ==
    IF CachePath(c) \in DOMAIN files THEN <<files[CachePath(c)]>> ELSE <<>>

\* C23: in any interleaving, the entry of a citation is created or
\* modified only by the step in which a call for that very citation, made
\* with cache=true, receives its payload; every step leaves the entries of
\* all other citations as they were.
C23_OnlyOwnEntry ==
    [][\A c \in FreeCits :
          Entry(cache', c) # Entry(cache, c) =>
              \E t \in Tasks :
                  /\ pc[t] = "requesting" /\ Terminal(t)'
                  /\ cur[t].cit = c /\ cur[t].cache
                  /\ Entry(cache', c) = <<xml'[t]>>
                  /\ \A d \in FreeCits \ {c} : Entry(cache', d) = Entry(cache, d)]_vars

\* Two calls for different citations have overlapped and both have written
\* their entries; each entry holds the payload of its own call.
C23_Witness ==
    \E t \in Tasks, u \in Tasks :
        /\ cur[t].cit # cur[u].cit
        /\ cur[t].wrote /\ cur[u].wrote
        /\ cur[t].nreq = 1 /\ cur[u].nreq = 1
        /\ Terminal(t) /\ Terminal(u)
        /\ Entry(cache, cur[t].cit) = <<xml[t]>>
        /\ Entry(cache, cur[u].cit) = <<xml[u]>>
        /\ xml[t] # xml[u]

\* C24: a fetch that fails (a non-2xx status or a transport error), forced
\* or not, over an existing entry or not, leaves the whole cache as it was:
\* the step in which it fails changes no entry, and the cache only ever
\* changes in a step in which a caching call receives a 200, so that every
\* entry stays the payload last fetched successfully into it.
C24_FailedFetchKeepsCache ==
    [][/\ \A t \in Tasks :
            (/\ pc[t] \in {"sleeping", "requesting"}
             /\ pc'[t] = "failed"
             /\ result'[t].kind \in {"http_status_error", "transport_error"})
            => /\ cache' = cache
               /\ ~cur'[t].wrote
       /\ cache' # cache =>
            \E t \in Tasks :
                /\ pc[t] = "requesting"
                /\ result'[t].kind \in {"ok", "parse_error"}
                /\ cur[t].cache
                /\ cache'[CachePath(cur[t].cit)] = xml'[t]
                /\ xml'[t] \in Bodies(cur[t].cit)]_vars

\* A forced, caching fetch over an existing entry has failed with a status
\* error, and the entry still holds the payload another call fetched.
C24_Witness ==
    \E t \in Tasks, u \in Tasks :
        /\ t # u
        /\ pc[t] = "failed" /\ result[t].kind = "http_status_error"
        /\ cur[t].force /\ cur[t].cache /\ cur[t].had /\ cur[t].nreq = 1
        /\ cur[u].cit = cur[t].cit
        /\ cur[u].wrote /\ pc[u] = "done"
        /\ Entry(cache, cur[t].cit) = <<xml[u]>>

\* C25: with the fetches issued one after the other, a request is released
\* only when at least rate_limit_delay has passed since the last release,
\* and the release is recorded as the last one; a fetch served from the
\* cache ends at once, without a wait, a request or a new last-request
\* time.
C25_SequentialRateLimited ==
    [][/\ (pc[Runner] # "requesting" /\ pc'[Runner] = "requesting")
            => /\ elapsed >= RateLimitDelay
               /\ elapsed' = 0
       /\ (runpc' # runpc /\ runpc' \in {"meta", "await"} /\ cur'[Runner].hit)
            => /\ Terminal(Runner)'
               /\ cur'[Runner].nreq = 0
               /\ elapsed' = elapsed
               /\ sleep' = sleep]_vars

\* A run has taken section 1 from the cache, fetched section 2 from the
\* network and has just released the request for section 3.
C25_Witness ==
    /\ runpc = "await"
    /\ pc[Runner] = "requesting" /\ elapsed = 0
    /\ i = 3
    /\ Len(sections) = 2
    /\ tally.hits = 1
    /\ cur[Runner].nreq = 1

\* C26: whatever calls were made before, get_config_for_jurisdiction finds
\* a configuration for every built-in jurisdiction, and for a registered
\* jurisdiction the registry holds the configuration registered.
C26_BuiltinsResolvable ==
    /\ (/\ regcall.op = "get_config_for_jurisdiction"
         /\ Lower(regcall.arg) \in DOMAIN BuiltinConfigs)
        => /\ regcall.config # NoConfig
           /\ regcall.config.jurisdiction = Lower(regcall.arg)
    /\ regcall.op = "register_source"
        => GetConfig(Registry, regcall.arg) = regcall.config

\* C27: a lookup gives for a jurisdiction code what it gives for the
\* lower-cased code: the same configuration, and from
\* get_source_for_jurisdiction the same adapter variant; and a
\* configuration registered under one casing is found under the other.
C27_CaseInsensitive ==
    /\ regcall.op \in {"get_config_for_jurisdiction", "get_source_for_jurisdiction"}
        => regcall.config = GetConfig(source_configs, Lower(regcall.arg))
    /\ regcall.op = "get_source_for_jurisdiction"
        => regcall.adapter = SelectAdapter(Lower(regcall.arg), regcall.config)
    /\ regcall.op = "register_source"
        => /\ GetConfig(source_configs, Lower(regcall.arg)) = regcall.config
           /\ GetConfig(source_configs, regcall.arg) = regcall.config

\* C28 as claimed: the non-forced, caching calls for one citation issue at
\* most one request between them, overlapping or not.
C28_OneRequestPerCitation ==
    \A t \in Tasks, u \in Tasks :
        (/\ t # u
         /\ cur[t].cit = cur[u].cit
         /\ cur[t].method # "none" /\ cur[u].method # "none"
         /\ ~cur[t].force /\ ~cur[u].force
         /\ cur[t].cache /\ cur[u].cache)
        => cur[t].nreq + cur[u].nreq <= 1

\* C28 as amended: a call issues at most one request; a non-forced call
\* issues one only if the citation had no entry when the call started, and
\* one that found an entry is served from it without a request.
C28_RequestOnlyOnMiss ==
    \A t \in Tasks :
        /\ cur[t].nreq <= 1
        /\ (cur[t].nreq = 1 /\ ~cur[t].force) => ~cur[t].had
        /\ (cur[t].had /\ ~cur[t].force) => (cur[t].hit /\ cur[t].nreq = 0)
        /\ cur[t].hit => (cur[t].had /\ ~cur[t].force)

\* Two non-forced, caching calls for the same citation both started while
\* it had no entry; each has sent its own request and written the entry.
C28_Witness ==
    \E t \in Tasks, u \in Tasks :
        /\ t # u
        /\ cur[t].cit = cur[u].cit
        /\ ~cur[t].force /\ ~cur[u].force
        /\ cur[t].cache /\ cur[u].cache
        /\ ~cur[t].had /\ ~cur[u].had
        /\ cur[t].nreq = 1 /\ cur[u].nreq = 1
        /\ cur[t].wrote /\ cur[u].wrote
        /\ Entry(cache, cur[t].cit) \in {<<xml[t]>>, <<xml[u]>>}

=============================================================================
